---- MODULE Spec2Model ----
(***************************************************************************)
(* Token ledger and purchase settlement of BEATPAX (src/app.py,            *)
(* src/models.py).                                                         *)
(*                                                                         *)
(* The committed database is the state shared by all requests.  Every      *)
(* request runs in its own SQLAlchemy session: rows are loaded into the    *)
(* session's identity map, changed in memory, and written back with the    *)
(* in-memory values (UPDATE ... SET col = <value>) when the session        *)
(* commits.  The store runs at its default isolation (READ COMMITTED): a   *)
(* query sees what is committed when it runs, and a commit makes all the   *)
(* session's pending writes visible at once.  After a commit every loaded  *)
(* object is expired and reloaded on its next attribute access.  Unique    *)
(* constraints are checked when the pending INSERT is written.             *)
(***************************************************************************)
EXTENDS Integers, Sequences, FiniteSets, TLC

\* ------------------------------------------------------------------ bounds
\* Number of requests served in one behaviour.
MaxRequests == 2

\* --------------------------------------------------------- program constants
SignupBonus == 50
TokenCost == 1

\* ------------------------------------------------------------------ catalog
Procs == {1, 2}
Users == {1, 2, 3, 4}
\* the users table before the modelled requests; user 4 registers later
OldUsers == {1, 2, 3}
\* session.get('user_id') of a caller who is not logged in
NoUser == 0
\* purchases made before the modelled window refer to beats 101, 102, ...
OldBeat(i) == 100 + i
\* a beat user 1 bought and its creator deleted since (is_active = False)
DeletedBeat == OldBeat(1)
Beats == {1, 2, 3, 4, DeletedBeat}
\* a beat id no row has
MissingBeat == 9
SoundPacks == {1}
\* share codes of the curated packs
CuratedPacks == {1, 2}
\* a share code no curated pack has
MissingPack == 8

\* Beat.creator_id: beats 1 and 2 are the tracks of sound pack 1, uploaded by
\* user 3; beat 3 is a standalone upload of user 1, beat 4 and the deleted
\* beat are standalone uploads of user 3.
BeatCreator(b) == IF b = 3 THEN 1 ELSE 3
\* Beat.sound_pack_id (0: standalone)
BeatSoundPack(b) == IF b \in {1, 2} THEN 1 ELSE 0
SoundPackCreator(s) == 3
\* CuratedPackTrack rows of a curated pack, in track order
CuratedTracks(c) == IF c = 1 THEN <<1, 2, 3>> ELSE <<1, 2>>
CuratedOwner(c) == 2

\* packages of purchase_tokens: package id -> tokens
PackageTokens(k) == CASE k = "100" -> 100 [] k = "250" -> 250
                      [] k = "500" -> 500 [] k = "1000" -> 1000 [] OTHER -> 0
ValidPackage(k) == k \in {"100", "250", "500", "1000"}

VARIABLES
    wallets,        \* wallets table: user -> row (exists = FALSE: no row)
    transactions,   \* transactions table, in insertion order
    library,        \* user_beat_library table, in insertion order
    beats,          \* beats table: beat -> [is_active, download_count, play_count]
    soundpacks,     \* sound_packs table: pack -> [is_active, track_count]
    curated,        \* curated_packs table: share code -> row
    pc,             \* position of each request worker in its handler
    ses,            \* the worker's request and SQLAlchemy session
    res,            \* the response of the worker's last request
    started,        \* requests started so far
    serial,         \* what the committed requests add up to, applied one by one
    eff,            \* what the worker's current request has committed
    alone,          \* no other request has begun or run since the worker's began
    overlap,        \* another request ran while the worker's request ran
    snap            \* the committed tables when the worker's request began

vars == <<wallets, transactions, library, beats, soundpacks, curated,
          pc, ses, res, started, serial, eff, alone, overlap, snap>>

db == <<wallets, transactions, library, beats, soundpacks, curated>>

\* ------------------------------------------------------------------ helpers
Max(a, b) == IF a >= b THEN a ELSE b

RECURSIVE SumSeq(_)
SumSeq(s) == IF s = <<>> THEN 0 ELSE Head(s) + SumSeq(Tail(s))

SeqToSet(s) == {s[i] : i \in 1..Len(s)}

\* the elements of s that satisfy Keep, in order
RECURSIVE FilterSeq(_, _)
FilterSeq(s, keep) ==
    IF s = <<>> THEN <<>>
    ELSE IF Head(s) \in keep THEN <<Head(s)>> \o FilterSeq(Tail(s), keep)
    ELSE FilterSeq(Tail(s), keep)

\* ------------------------------------------------------------------- rows
NoWallet == [exists |-> FALSE, balance |-> 0, total_spent |-> 0, total_earned |-> 0]

\* Wallet(user_id=u, balance=50): total_spent and total_earned default to 0
NewWallet == [exists |-> TRUE, balance |-> SignupBonus, total_spent |-> 0,
              total_earned |-> 0]

Tx(u, type, amount, after, rtype, rid) ==
    [user_id |-> u, transaction_type |-> type, amount |-> amount,
     balance_after |-> after, reference_type |-> rtype, reference_id |-> rid]

\* the 'bonus' Transaction of register and get_or_create_wallet
BonusTx(u) == Tx(u, "bonus", SignupBonus, SignupBonus, "signup_bonus", 0)

LibRow(u, b, spent, count, at) ==
    [user_id |-> u, beat_id |-> b, tokens_spent |-> spent,
     download_count |-> count, downloaded_at |-> at]

\* UserBeatLibrary.query.filter_by(user_id=u, beat_id=b).first(): the row id, 0 for None
RECURSIVE FindLib(_, _, _, _)
FindLib(lib, u, b, i) ==
    IF i > Len(lib) THEN 0
    ELSE IF lib[i].user_id = u /\ lib[i].beat_id = b THEN i
    ELSE FindLib(lib, u, b, i + 1)

Owned(lib, u, b) == FindLib(lib, u, b, 1) # 0

\* ------------------------------------------------------- the session
\* A Wallet object of the identity map.  st: "absent" (not loaded), "loaded",
\* "expired" (after a commit, reloaded on access), "new" (pending INSERT).
\* dirty: the columns changed since they were loaded (the SET list of the UPDATE).
NoObject == [st |-> "absent", balance |-> 0, total_spent |-> 0, total_earned |-> 0,
             dirty |-> {}]

LoadWallet(row) == [st |-> "loaded", balance |-> row.balance,
                    total_spent |-> row.total_spent,
                    total_earned |-> row.total_earned, dirty |-> {}]

NoResponse == [status |-> 0, already_owned |-> FALSE, tokens_spent |-> -1,
               new_balance |-> -1, required |-> -1, available |-> -1,
               tracks_added |-> -1, is_free |-> FALSE,
               commit_error |-> "none", attempts |-> 0]

NoEffect == [debit |-> 0, credit |-> 0, ntx |-> 0, nlib |-> 0, created |-> {},
             beat_dc |-> 0, pack_dc |-> 0]

IdleSession ==
    [op |-> "none", user |-> NoUser, beat |-> 0, pack |-> 0, req |-> {},
     package |-> "", now |-> 0,
     wal |-> [u \in Users |-> NoObject],
     beat_st |-> "absent", beat_dc |-> 0, beat_pc |-> 0,
     lib_id |-> 0, lib_dc |-> 0,
     pack_dc |-> 0,
     ptx |-> <<>>, plib |-> <<>>,
     tracks |-> <<>>, todo |-> <<>>, idx |-> 0,
     gw_user |-> NoUser, phase |-> "none", debited |-> FALSE]

\* db.session.rollback() / the teardown of the request: pending changes and
\* loaded objects are dropped; the request's inputs are kept for the record.
Closed(s) == [IdleSession EXCEPT !.op = s.op, !.user = s.user, !.beat = s.beat,
                                 !.pack = s.pack, !.req = s.req,
                                 !.package = s.package, !.now = s.now,
                                 !.debited = s.debited, !.tracks = s.tracks,
                                 !.todo = s.todo, !.phase = s.phase]

Active(q) == pc[q] \notin {"idle", "done"}

\* the user has a row in users: one of the old users, or one who registered
\* (register commits the user together with the wallet)
Registered(u) == u \in OldUsers \/ (u \in Users /\ wallets[u].exists)

\* ------------------------------------------------------------------- Init
\* Purchases a user made before the modelled window: -1 is a user row that has
\* no wallet row (a user older than the wallets table), n >= 0 a wallet that
\* got the bonus and then paid for n beats outside the modelled catalog.
InitPrior(u) == IF u = 1 THEN {49} ELSE IF u = 3 THEN {-1, 0} ELSE {-1}

InitWallet(n) ==
    IF n < 0 THEN NoWallet
    ELSE [exists |-> TRUE, balance |-> SignupBonus - n * TokenCost,
          total_spent |-> n * TokenCost, total_earned |-> 0]

InitTx(u, n) ==
    IF n < 0 THEN <<>>
    ELSE <<BonusTx(u)>> \o
         [i \in 1..n |-> Tx(u, "spend", -TokenCost, SignupBonus - i * TokenCost,
                            "beat_download", OldBeat(i))]

InitLib(u, n) ==
    IF n < 0 THEN <<>>
    ELSE [i \in 1..n |-> LibRow(u, OldBeat(i), TokenCost, 1, 0)]

\* the tables when user u made prior[u] purchases before the modelled
\* requests; first is the number the request counter starts from
InitWith(prior, first) ==
        /\ wallets = [u \in Users |-> InitWallet(prior[u])]
        /\ transactions = InitTx(1, prior[1]) \o InitTx(2, prior[2]) \o InitTx(3, prior[3])
                             \o InitTx(4, prior[4])
        /\ library = InitLib(1, prior[1]) \o InitLib(2, prior[2]) \o InitLib(3, prior[3])
                        \o InitLib(4, prior[4])
        /\ serial = [balance |-> [u \in Users |-> InitWallet(prior[u]).balance],
                     total_spent |-> [u \in Users |-> InitWallet(prior[u]).total_spent],
                     total_earned |-> [u \in Users |-> 0],
                     beat_dc |-> [b \in Beats |-> IF b = DeletedBeat THEN 1 ELSE 0],
                     wallet_rows |-> [u \in Users |-> IF prior[u] < 0 THEN 0 ELSE 1]]
        /\ beats = [b \in Beats |->
                       IF b = DeletedBeat
                       THEN [is_active |-> FALSE, download_count |-> 1, play_count |-> 0]
                       ELSE [is_active |-> TRUE, download_count |-> 0, play_count |-> 0]]
        /\ soundpacks = [s \in SoundPacks |->
                            [is_active |-> TRUE,
                             track_count |-> Cardinality({b \in Beats : BeatSoundPack(b) = s})]]
        /\ curated = [c \in CuratedPacks |->
                         [is_active |-> TRUE, is_free |-> (c = 2), download_count |-> 0]]
        /\ pc = [p \in Procs |-> "idle"]
        /\ ses = [p \in Procs |-> IdleSession]
        /\ res = [p \in Procs |-> NoResponse]
        /\ started = first
        /\ eff = [p \in Procs |-> NoEffect]
        /\ alone = [p \in Procs |-> TRUE]
        /\ overlap = [p \in Procs |-> FALSE]
        /\ snap = [p \in Procs |-> [wallets |-> wallets, ntx |-> 0, nlib |-> 0,
                                     beats |-> beats, curated |-> curated]]

Init ==
    \E prior \in [Users -> {-1, 0, 49}] :
        /\ \A u \in Users : prior[u] \in InitPrior(u)
        /\ InitWith(prior, 0)

\* ------------------------------------------------- request bookkeeping
\* A request begins on worker p, the first free one (which worker serves a
\* request shows in nothing), for a visitor or a user who can log in: the
\* session is fresh, and the bookkeeping of what the request commits starts
\* from nothing.
Begin(p, s) ==
    /\ pc[p] \in {"idle", "done"}
    /\ (s.user # NoUser) => Registered(s.user)
    /\ \A q \in Procs : q < p => Active(q)
    /\ started < MaxRequests
    /\ started' = started + 1
    /\ ses' = [ses EXCEPT ![p] = [s EXCEPT !.now = started + 1]]
    /\ eff' = [eff EXCEPT ![p] = NoEffect]
    /\ alone' = [q \in Procs |-> q = p /\ \A r \in Procs \ {p} : ~Active(r)]
    /\ overlap' = [q \in Procs |->
                      IF q = p THEN \E r \in Procs \ {p} : Active(r)
                      ELSE IF Active(q) THEN TRUE ELSE overlap[q]]
    /\ snap' = [snap EXCEPT ![p] = [wallets |-> wallets, ntx |-> Len(transactions),
                                    nlib |-> Len(library), beats |-> beats,
                                    curated |-> curated]]

\* The handler returns response r; the request's session is torn down.
Respond(p, r) ==
    /\ pc' = [pc EXCEPT ![p] = "done"]
    /\ res' = [res EXCEPT ![p] = r]

\* ------------------------------------------------------- commit and flush
\* The wallets table after the session's Wallet objects are written: a new
\* object is inserted, a loaded one is updated in the columns it changed.
WriteWallets(s) ==
    [u \in Users |->
        IF s.wal[u].st = "new"
        THEN [exists |-> TRUE, balance |-> s.wal[u].balance,
              total_spent |-> s.wal[u].total_spent,
              total_earned |-> s.wal[u].total_earned]
        ELSE [exists |-> wallets[u].exists,
              balance |-> IF "balance" \in s.wal[u].dirty
                          THEN s.wal[u].balance ELSE wallets[u].balance,
              total_spent |-> IF "total_spent" \in s.wal[u].dirty
                              THEN s.wal[u].total_spent ELSE wallets[u].total_spent,
              total_earned |-> IF "total_earned" \in s.wal[u].dirty
                               THEN s.wal[u].total_earned ELSE wallets[u].total_earned]]

\* a store that does not enforce the uniqueness of wallets.user_id
UniqueViolationLibraryOnly(s) ==
    \E i \in 1..Len(s.plib) : Owned(library, s.plib[i].user_id, s.plib[i].beat_id)

\* a store that does not enforce unique_user_beat of user_beat_library
UniqueViolationWalletOnly(s) ==
    \E u \in Users : s.wal[u].st = "new" /\ wallets[u].exists

\* wallets.user_id is unique, and so is user_beat_library (user_id, beat_id):
\* the INSERT of a second row raises IntegrityError.
UniqueViolation(s) ==
    \/ \E u \in Users : s.wal[u].st = "new" /\ wallets[u].exists
    \/ \E i \in 1..Len(s.plib) : Owned(library, s.plib[i].user_id, s.plib[i].beat_id)

\* expire_on_commit: every object of the session is expired by the commit.
Expire(s) ==
    [s EXCEPT !.wal = [u \in Users |->
                          IF s.wal[u].st = "absent" THEN NoObject
                          ELSE [NoObject EXCEPT !.st = "expired"]],
              !.beat_st = IF s.beat_st = "absent" THEN "absent" ELSE "expired",
              !.ptx = <<>>, !.plib = <<>>]

SumAmounts(txs, u, type) ==
    SumSeq([i \in 1..Len(txs) |->
               IF txs[i].user_id = u /\ txs[i].transaction_type = type
               THEN txs[i].amount ELSE 0])

\* What the committed requests add up to when their changes are applied one
\* after the other: a created wallet starts at the bonus, a debit subtracts,
\* a credit adds, an INSERT into wallets adds a row.
SerialAfter(s, beatInc) ==
    [balance |-> [u \in Users |->
                     (IF s.wal[u].st = "new" THEN SignupBonus ELSE serial.balance[u])
                     + SumAmounts(s.ptx, u, "spend") + SumAmounts(s.ptx, u, "earn")
                     + SumAmounts(s.ptx, u, "purchase")],
     total_spent |-> [u \in Users |->
                         serial.total_spent[u] - SumAmounts(s.ptx, u, "spend")],
     total_earned |-> [u \in Users |->
                          serial.total_earned[u] + SumAmounts(s.ptx, u, "earn")],
     beat_dc |-> [b \in Beats |->
                     serial.beat_dc[b] + (IF b = s.beat THEN beatInc ELSE 0)],
     wallet_rows |-> [u \in Users |->
                         serial.wallet_rows[u] + (IF s.wal[u].st = "new" THEN 1 ELSE 0)]]

EffectAfter(e, s, beatInc, packInc) ==
    [debit |-> e.debit - SumAmounts(s.ptx, s.user, "spend"),
     credit |-> e.credit + SumSeq([i \in 1..Len(s.ptx) |->
                                     IF s.ptx[i].transaction_type = "earn"
                                     THEN s.ptx[i].amount ELSE 0]),
     ntx |-> e.ntx + Len(s.ptx),
     nlib |-> e.nlib + Len(s.plib),
     created |-> e.created \cup {u \in Users : s.wal[u].st = "new"},
     beat_dc |-> e.beat_dc + beatInc,
     pack_dc |-> e.pack_dc + packInc]

\* a commit that also restates balance_after on the user's earlier records
InsertRestating(txs, ptx) ==
    [i \in 1..Len(txs) |->
        IF ptx # <<>> /\ txs[i].user_id = ptx[1].user_id
        THEN [txs[i] EXCEPT !.balance_after = ptx[1].balance_after]
        ELSE txs[i]] \o ptx

\* the INSERTs of the session's new Transaction rows; no handler loads,
\* changes or deletes a Transaction
InsertTransactions(txs, ptx) == txs \o ptx

\* db.session.commit() of session s on worker p: the pending wallets,
\* transactions and library rows become visible together.
CommitLedger(p, s, beatInc, packInc) ==
    /\ wallets' = WriteWallets(s)
    /\ transactions' = InsertTransactions(transactions, s.ptx)
    /\ library' = library \o s.plib
    /\ serial' = SerialAfter(s, beatInc)
    /\ eff' = [eff EXCEPT ![p] = EffectAfter(eff[p], s, beatInc, packInc)]

\* the except branch of a handler: db.session.rollback() and a 500 response
Failed500(p) ==
    /\ Respond(p, [NoResponse EXCEPT !.status = 500])
    /\ ses' = [ses EXCEPT ![p] = Closed(ses[p])]
    /\ UNCHANGED <<db, serial, eff>>

\* ------------------------------------------------------ beatpax_download
\* a balance check that lets every purchase through
InsufficientNever(balance, cost) == FALSE

\* a balance check that refuses a buyer who has exactly the cost
InsufficientOrEqual(balance, cost) == balance <= cost

\* wallet.balance < token_cost
Insufficient(balance, cost) == balance < cost

\* the creator share without its floor of one token
CreatorEarningsFloor(cost) == (cost * 8) \div 10

\* max(1, int(token_cost * 0.8))
CreatorEarnings(cost) == Max(1, (cost * 8) \div 10)

\* a debit that takes the cost twice from the balance
DebitBuyerTwice(s) ==
    LET u == s.user
        w == s.wal[u]
        w1 == [w EXCEPT !.balance = w.balance - 2 * TokenCost,
                        !.total_spent = w.total_spent + TokenCost,
                        !.dirty = w.dirty \cup {"balance", "total_spent"}]
    IN [s EXCEPT !.wal[u] = w1,
                 !.ptx = Append(s.ptx, Tx(u, "spend", -TokenCost, w1.balance,
                                          "beat_download", s.beat)),
                 !.debited = TRUE]

\* wallet.balance -= token_cost; wallet.total_spent += token_cost; the buyer's
\* 'spend' Transaction with balance_after = wallet.balance
DebitBuyer(s) ==
    LET u == s.user
        w == s.wal[u]
        w1 == [w EXCEPT !.balance = w.balance - TokenCost,
                        !.total_spent = w.total_spent + TokenCost,
                        !.dirty = w.dirty \cup {"balance", "total_spent"}]
    IN [s EXCEPT !.wal[u] = w1,
                 !.ptx = Append(s.ptx, Tx(u, "spend", -TokenCost, w1.balance,
                                          "beat_download", s.beat)),
                 !.debited = TRUE]

\* a purchase that adds the buyer's library entry and pays the creator nothing
CreditNobody(s) ==
    [s EXCEPT !.plib = Append(s.plib, LibRow(s.user, s.beat, TokenCost, 1, s.now))]

\* creator_wallet.balance += creator_earnings; total_earned likewise; the
\* creator's 'earn' Transaction; the UserBeatLibrary entry of the buyer
CreditCreator(s) ==
    LET c == BeatCreator(s.beat)
        w == s.wal[c]
        w1 == [w EXCEPT !.balance = w.balance + CreatorEarnings(TokenCost),
                        !.total_earned = w.total_earned + CreatorEarnings(TokenCost),
                        !.dirty = w.dirty \cup {"balance", "total_earned"}]
    IN [s EXCEPT !.wal[c] = w1,
                 !.ptx = Append(s.ptx, Tx(c, "earn", CreatorEarnings(TokenCost),
                                          w1.balance, "beat_sale", s.beat)),
                 !.plib = Append(s.plib, LibRow(s.user, s.beat, TokenCost, 1, s.now))]

\* wallet.balance += pkg['tokens'] and the 'purchase' Transaction of purchase_tokens
CreditTokens(s) ==
    LET u == s.user
        w == s.wal[u]
        w1 == [w EXCEPT !.balance = w.balance + PackageTokens(s.package),
                        !.dirty = w.dirty \cup {"balance"}]
    IN [s EXCEPT !.wal[u] = w1,
                 !.ptx = Append(s.ptx, Tx(u, "purchase", PackageTokens(s.package),
                                          w1.balance, "token_purchase", 0))]

\* The handler goes on with the wallet get_or_create_wallet returned, up to
\* its next statement that reaches the database.
Continue(p, s) ==
    IF s.op = "tokens"
    THEN /\ ses' = [ses EXCEPT ![p] = CreditTokens(s)]
         /\ pc' = [pc EXCEPT ![p] = "t_commit"]
         /\ UNCHANGED res
    ELSE IF s.phase = "buyer"
    THEN IF Insufficient(s.wal[s.user].balance, TokenCost)
         THEN /\ Respond(p, [NoResponse EXCEPT !.status = 400,
                                               !.required = TokenCost,
                                               !.available = s.wal[s.user].balance])
              /\ ses' = [ses EXCEPT ![p] = Closed(s)]
         ELSE \* beat.title of the Transaction reloads an expired beat
              /\ ses' = [ses EXCEPT ![p] =
                            IF s.beat_st = "expired" THEN DebitBuyer(s)
                            ELSE [DebitBuyer(s) EXCEPT !.phase = "creator",
                                                       !.gw_user = BeatCreator(s.beat)]]
              /\ pc' = [pc EXCEPT ![p] = IF s.beat_st = "expired" THEN "d_brefresh"
                                         ELSE "gw_select"]
              /\ UNCHANGED res
    ELSE /\ ses' = [ses EXCEPT ![p] = [CreditCreator(s) EXCEPT !.phase = "commit"]]
         /\ pc' = [pc EXCEPT ![p] = IF s.beat_st = "expired" THEN "d_brefresh"
                                    ELSE "d_commit"]
         /\ UNCHANGED res

\* a lookup that takes any row of the table, deleted or not
BeatRowMissing(b) == b \notin Beats

\* not beat or not beat.is_active
BeatNotFound(b) == ~(b \in Beats /\ beats[b].is_active)

\* beat = Beat.query.get(beat_id); 404 if it is missing or inactive
StartDownload(p, u, b) ==
    LET found == ~BeatNotFound(b)
        s0 == [IdleSession EXCEPT !.op = "download", !.user = u, !.beat = b]
    IN /\ Begin(p, IF found
                   THEN [s0 EXCEPT !.beat_st = "loaded",
                                   !.beat_dc = beats[b].download_count]
                   ELSE s0)
       /\ IF found
          THEN /\ pc' = [pc EXCEPT ![p] = "d_existing"]
               /\ res' = [res EXCEPT ![p] = NoResponse]
          ELSE Respond(p, [NoResponse EXCEPT !.status = 404])
       /\ UNCHANGED <<db, serial>>

\* existing = UserBeatLibrary.query.filter_by(user_id, beat_id).first()
Download_CheckOwned(p) ==
    /\ pc[p] = "d_existing"
    /\ LET s == ses[p]
           id == FindLib(library, s.user, s.beat, 1)
       IN IF id # 0
          THEN /\ ses' = [ses EXCEPT ![p] = [s EXCEPT !.lib_id = id,
                             !.lib_dc = library[id].download_count]]
               /\ pc' = [pc EXCEPT ![p] = "d_owned"]
          ELSE /\ ses' = [ses EXCEPT ![p] = [s EXCEPT !.gw_user = s.user,
                                                      !.phase = "buyer"]]
               /\ pc' = [pc EXCEPT ![p] = "gw_select"]
    /\ UNCHANGED <<db, res, started, serial, eff, alone, overlap, snap>>

\* an already-owned path that charges the buyer again
Download_AlreadyOwnedCharged(p) ==
    /\ pc[p] = "d_owned"
    /\ LET s == ses[p]
       IN /\ library' = [library EXCEPT ![s.lib_id].download_count = s.lib_dc + 1,
                                        ![s.lib_id].downloaded_at = s.now]
          /\ wallets' = [wallets EXCEPT ![s.user].balance = @ - TokenCost]
          /\ ses' = [ses EXCEPT ![p] = Closed(s)]
    /\ Respond(p, [NoResponse EXCEPT !.status = 200, !.already_owned = TRUE])
    /\ UNCHANGED <<transactions, beats, soundpacks, curated,
                   started, serial, eff, alone, overlap, snap>>

\* already owned: existing.download_count += 1, downloaded_at = now, commit
Download_AlreadyOwned(p) ==
    /\ pc[p] = "d_owned"
    /\ LET s == ses[p]
       IN /\ library' = [library EXCEPT ![s.lib_id].download_count = s.lib_dc + 1,
                                        ![s.lib_id].downloaded_at = s.now]
          /\ ses' = [ses EXCEPT ![p] = Closed(s)]
    /\ Respond(p, [NoResponse EXCEPT !.status = 200, !.already_owned = TRUE])
    /\ UNCHANGED <<wallets, transactions, beats, soundpacks, curated,
                   started, serial, eff, alone, overlap, snap>>

\* get_or_create_wallet: wallet = Wallet.query.filter_by(user_id).first()
GetOrCreateWallet_Query(p) ==
    /\ pc[p] = "gw_select"
    /\ LET s == ses[p]
           u == s.gw_user
       IN IF s.wal[u].st \in {"loaded", "new"}
          THEN Continue(p, s)
          ELSE IF wallets[u].exists
          THEN Continue(p, [s EXCEPT !.wal[u] = LoadWallet(wallets[u])])
          ELSE /\ pc' = [pc EXCEPT ![p] = "gw_create"]
               /\ UNCHANGED <<ses, res>>
    /\ UNCHANGED <<db, started, serial, eff, alone, overlap, snap>>

\* get_or_create_wallet, no wallet found: the Wallet and its 'bonus'
\* Transaction are added and db.session.commit() commits the whole session
GetOrCreateWallet_Create(p) ==
    /\ pc[p] = "gw_create"
    /\ LET s == ses[p]
           u == s.gw_user
           s1 == [s EXCEPT !.wal[u] = [NoObject EXCEPT !.st = "new",
                                                       !.balance = SignupBonus],
                           !.ptx = Append(s.ptx, BonusTx(u))]
       IN IF UniqueViolation(s1)
          THEN Failed500(p)
          ELSE /\ CommitLedger(p, s1, 0, 0)
               /\ ses' = [ses EXCEPT ![p] = Expire(s1)]
               /\ pc' = [pc EXCEPT ![p] = "gw_refresh"]
               /\ UNCHANGED <<res, beats, soundpacks, curated>>
    /\ UNCHANGED <<started, alone, overlap, snap>>

\* the created wallet is expired by the commit: its next attribute access
\* reloads the row
GetOrCreateWallet_Reload(p) ==
    /\ pc[p] = "gw_refresh"
    /\ LET s == ses[p]
           u == s.gw_user
       IN Continue(p, [s EXCEPT !.wal[u] = LoadWallet(wallets[u])])
    /\ UNCHANGED <<db, started, serial, eff, alone, overlap, snap>>

\* the beat was expired by a commit of get_or_create_wallet: beat.title reloads it
Download_ReloadBeat(p) ==
    /\ pc[p] = "d_brefresh"
    /\ LET s == ses[p]
           s1 == [s EXCEPT !.beat_st = "loaded",
                           !.beat_dc = beats[s.beat].download_count]
       IN IF s.phase = "buyer"
          THEN /\ ses' = [ses EXCEPT ![p] = [s1 EXCEPT !.phase = "creator",
                                                       !.gw_user = BeatCreator(s.beat)]]
               /\ pc' = [pc EXCEPT ![p] = "gw_select"]
          ELSE /\ ses' = [ses EXCEPT ![p] = s1]
               /\ pc' = [pc EXCEPT ![p] = "d_commit"]
    /\ UNCHANGED <<db, res, started, serial, eff, alone, overlap, snap>>

\* a flush that writes the whole beat as the handler loaded it (active)
FlushBeatRow(bs, b, col, v) ==
    [bs EXCEPT ![b] = [[@ EXCEPT ![col] = v] EXCEPT !.is_active = TRUE]]

\* the UPDATE of the flush: only the column the handler assigned is written
FlushBeat(bs, b, col, v) == [bs EXCEPT ![b][col] = v]

\* beat.download_count += 1; db.session.commit()
Download_Commit(p) ==
    /\ pc[p] = "d_commit"
    /\ LET s == ses[p]
       IN IF UniqueViolation(s)
          THEN Failed500(p)
          ELSE /\ CommitLedger(p, s, 1, 0)
               /\ beats' = FlushBeat(beats, s.beat, "download_count", s.beat_dc + 1)
               /\ ses' = [ses EXCEPT ![p] = Expire(s)]
               /\ pc' = [pc EXCEPT ![p] = "d_respond"]
               /\ UNCHANGED <<res, soundpacks, curated>>
    /\ UNCHANGED <<started, alone, overlap, snap>>

\* the response: 'new_balance': wallet.balance reloads the expired wallet
Download_Respond(p) ==
    /\ pc[p] = "d_respond"
    /\ Respond(p, [NoResponse EXCEPT !.status = 200, !.tokens_spent = TokenCost,
                                     !.new_balance = wallets[ses[p].user].balance])
    /\ ses' = [ses EXCEPT ![p] = Closed(ses[p])]
    /\ UNCHANGED <<db, started, serial, eff, alone, overlap, snap>>

\* ----------------------------------------------------------- beatpax_play
\* beat = Beat.query.get(beat_id); 404 if it is missing or inactive
StartPlay(p, u, b) ==
    LET found == ~BeatNotFound(b)
        s0 == [IdleSession EXCEPT !.op = "play", !.user = u, !.beat = b]
    IN /\ Begin(p, IF found
                   THEN [s0 EXCEPT !.beat_st = "loaded",
                                   !.beat_pc = beats[b].play_count]
                   ELSE s0)
       /\ IF found
          THEN /\ pc' = [pc EXCEPT ![p] = "p_commit"]
               /\ res' = [res EXCEPT ![p] = NoResponse]
          ELSE Respond(p, [NoResponse EXCEPT !.status = 404])
       /\ UNCHANGED <<db, serial>>

\* beat.play_count += 1; db.session.commit(); the response
Play_Commit(p) ==
    /\ pc[p] = "p_commit"
    /\ beats' = FlushBeat(beats, ses[p].beat, "play_count", ses[p].beat_pc + 1)
    /\ Respond(p, [NoResponse EXCEPT !.status = 200])
    /\ ses' = [ses EXCEPT ![p] = Closed(ses[p])]
    /\ UNCHANGED <<wallets, transactions, library, soundpacks, curated,
                   started, serial, eff, alone, overlap, snap>>

\* ------------------------------------------------------- purchase_tokens
\* 400 for a package that is not in the table; else get_or_create_wallet
StartTokens(p, u, k) ==
    LET s0 == [IdleSession EXCEPT !.op = "tokens", !.user = u, !.package = k,
                                  !.gw_user = u, !.phase = "buyer"]
    IN /\ Begin(p, s0)
       /\ IF ValidPackage(k)
          THEN /\ pc' = [pc EXCEPT ![p] = "gw_select"]
               /\ res' = [res EXCEPT ![p] = NoResponse]
          ELSE Respond(p, [NoResponse EXCEPT !.status = 400])
       /\ UNCHANGED <<db, serial>>

\* db.session.commit() of purchase_tokens
Tokens_Commit(p) ==
    /\ pc[p] = "t_commit"
    /\ LET s == ses[p]
       IN /\ CommitLedger(p, s, 0, 0)
          /\ ses' = [ses EXCEPT ![p] = Expire(s)]
    /\ pc' = [pc EXCEPT ![p] = "t_respond"]
    /\ UNCHANGED <<res, beats, soundpacks, curated, started, alone, overlap, snap>>

\* 'new_balance': wallet.balance reloads the expired wallet
Tokens_Respond(p) ==
    /\ pc[p] = "t_respond"
    /\ Respond(p, [NoResponse EXCEPT !.status = 200,
                                     !.new_balance = wallets[ses[p].user].balance])
    /\ ses' = [ses EXCEPT ![p] = Closed(ses[p])]
    /\ UNCHANGED <<db, started, serial, eff, alone, overlap, snap>>

\* ------------------------------------------------- download_curated_pack
\* track_ids taken from the request: every requested beat of the catalog,
\* in the pack or not
TrackIdsAsRequested(c, req) ==
    IF req # {} THEN FilterSeq(<<1, 2, 3, 4>>, req) ELSE CuratedTracks(c)

\* track_ids: the pack's tracks, filtered to the requested ids when
\* requested_track_ids is given (None and [] are both "not given")
TrackIds(c, req) ==
    IF req # {} THEN FilterSeq(CuratedTracks(c), req) ELSE CuratedTracks(c)

\* a batch purchase that charges every requested track, owned or not
PackPurchaseAll(s) ==
    LET u == s.user
        w == s.wal[u]
        total_cost == Len(s.tracks)
        w1 == [w EXCEPT !.balance = w.balance - total_cost,
                        !.total_spent = w.total_spent + total_cost,
                        !.dirty = w.dirty \cup {"balance", "total_spent"}]
    IN [s EXCEPT !.wal[u] = w1,
                 !.plib = [i \in 1..Len(s.todo) |-> LibRow(u, s.todo[i], 1, 0, -1)],
                 !.ptx = [i \in 1..Len(s.todo) |->
                             Tx(u, "spend", -1, w1.balance,
                                "curated_pack_download", s.todo[i])],
                 !.debited = TRUE]

\* a batch purchase that also writes an 'earn' Transaction for the creator of
\* every track it charges
PackPurchaseWithEarn(s) ==
    LET u == s.user
        w == s.wal[u]
        total_cost == Len(s.todo)
        w1 == [w EXCEPT !.balance = w.balance - total_cost,
                        !.total_spent = w.total_spent + total_cost,
                        !.dirty = w.dirty \cup {"balance", "total_spent"}]
    IN [s EXCEPT !.wal[u] = w1,
                 !.plib = [i \in 1..Len(s.todo) |-> LibRow(u, s.todo[i], 1, 0, -1)],
                 !.ptx = [i \in 1..Len(s.todo) |->
                             Tx(u, "spend", -1, w1.balance,
                                "curated_pack_download", s.todo[i])]
                         \o [i \in 1..Len(s.todo) |->
                                Tx(BeatCreator(s.todo[i]), "earn", 1, 0,
                                   "beat_sale", s.todo[i])],
                 !.debited = TRUE]

\* wallet.balance -= total_cost; wallet.total_spent += total_cost; then for
\* every track to download a UserBeatLibrary(tokens_spent=1) and a 'spend'
\* Transaction(amount=-1, balance_after=wallet.balance)
PackPurchase(s) ==
    LET u == s.user
        w == s.wal[u]
        total_cost == Len(s.todo)
        w1 == [w EXCEPT !.balance = w.balance - total_cost,
                        !.total_spent = w.total_spent + total_cost,
                        !.dirty = w.dirty \cup {"balance", "total_spent"}]
    IN [s EXCEPT !.wal[u] = w1,
                 !.plib = [i \in 1..Len(s.todo) |-> LibRow(u, s.todo[i], 1, 0, -1)],
                 !.ptx = [i \in 1..Len(s.todo) |->
                             Tx(u, "spend", -1, w1.balance,
                                "curated_pack_download", s.todo[i])],
                 !.debited = TRUE]

\* pack lookup by share code, the track list, the free / login branches
StartCurated(p, u, c, req) ==
    LET found == c \in CuratedPacks /\ curated[c].is_active
        s0 == [IdleSession EXCEPT !.op = "curated", !.user = u, !.pack = c,
                                  !.req = req]
        s1 == [s0 EXCEPT !.tracks = TrackIds(c, req),
                         !.pack_dc = curated[c].download_count]
        st == IF ~found THEN 404
              ELSE IF s1.tracks = <<>> THEN 400
              ELSE IF curated[c].is_free THEN 0
              ELSE IF u = NoUser THEN 401
              ELSE 0
    IN /\ Begin(p, IF found THEN s1 ELSE s0)
       /\ IF st # 0
          THEN Respond(p, [NoResponse EXCEPT !.status = st])
          ELSE /\ pc' = [pc EXCEPT ![p] = IF curated[c].is_free THEN "c_free"
                                          ELSE "c_wallet"]
               /\ res' = [res EXCEPT ![p] = NoResponse]
       /\ UNCHANGED <<db, serial>>

\* a free download that records the tracks in the library of the user
Curated_FreeDownloadRecorded(p) ==
    /\ pc[p] = "c_free"
    /\ LET s == ses[p]
       IN /\ curated' = [curated EXCEPT ![s.pack].download_count = s.pack_dc + 1]
          /\ library' = library \o [i \in 1..Len(s.tracks) |->
                                        LibRow(s.user, s.tracks[i], 0, 0, -1)]
          /\ ses' = [ses EXCEPT ![p] = Closed(s)]
          /\ eff' = [eff EXCEPT ![p].pack_dc = @ + 1]
    /\ Respond(p, [NoResponse EXCEPT !.status = 200, !.is_free = TRUE])
    /\ UNCHANGED <<wallets, transactions, beats, soundpacks,
                   started, serial, alone, overlap, snap>>

\* free pack: pack.download_count += 1; db.session.commit()
Curated_FreeDownload(p) ==
    /\ pc[p] = "c_free"
    /\ LET s == ses[p]
       IN /\ curated' = [curated EXCEPT ![s.pack].download_count = s.pack_dc + 1]
          /\ ses' = [ses EXCEPT ![p] = Closed(s)]
          /\ eff' = [eff EXCEPT ![p].pack_dc = @ + 1]
    /\ Respond(p, [NoResponse EXCEPT !.status = 200, !.is_free = TRUE])
    /\ UNCHANGED <<wallets, transactions, library, beats, soundpacks,
                   started, serial, alone, overlap, snap>>

\* wallet = Wallet.query.filter_by(user_id).first(); a missing wallet is
\* added to the session with balance 50, without a Transaction or a commit
Curated_Wallet(p) ==
    /\ pc[p] = "c_wallet"
    /\ LET s == ses[p]
           u == s.user
       IN ses' = [ses EXCEPT ![p] =
                     [s EXCEPT !.wal[u] = IF wallets[u].exists
                                          THEN LoadWallet(wallets[u])
                                          ELSE [NoObject EXCEPT !.st = "new",
                                                    !.balance = SignupBonus],
                               !.idx = 1]]
    /\ pc' = [pc EXCEPT ![p] = "c_owned"]
    /\ UNCHANGED <<db, res, started, serial, eff, alone, overlap, snap>>

\* an insufficient-balance answer given after the download was counted
Curated_InsufficientCounted(p, s) ==
    /\ Respond(p, [NoResponse EXCEPT !.status = 400,
                                     !.required = Len(s.todo),
                                     !.available = s.wal[s.user].balance])
    /\ ses' = [ses EXCEPT ![p] = Closed(s)]
    /\ curated' = [curated EXCEPT ![s.pack].download_count = s.pack_dc + 1]
    /\ eff' = [eff EXCEPT ![p].pack_dc = @ + 1]
    /\ UNCHANGED <<wallets, transactions, library, beats, soundpacks, serial>>

\* if wallet.balance < total_cost: the 400 with 'balance' and 'cost'
Curated_Insufficient(p, s) ==
    /\ Respond(p, [NoResponse EXCEPT !.status = 400,
                                     !.required = Len(s.todo),
                                     !.available = s.wal[s.user].balance])
    /\ ses' = [ses EXCEPT ![p] = Closed(s)]
    /\ UNCHANGED <<db, serial, eff>>

\* One turn of the loop over track_ids: the library query (its autoflush
\* writes a pending new wallet) and, after the last track, the handler up to
\* its commit.
Curated_CheckOwned(p) ==
    /\ pc[p] = "c_owned"
    /\ LET s == ses[p]
           u == s.user
           t == s.tracks[s.idx]
           s1 == [s EXCEPT !.todo = IF Owned(library, u, t) THEN s.todo
                                    ELSE Append(s.todo, t),
                           !.idx = s.idx + 1]
       IN IF s.wal[u].st = "new" /\ wallets[u].exists
          THEN Failed500(p)
          ELSE IF s.idx < Len(s.tracks)
          THEN /\ ses' = [ses EXCEPT ![p] = s1]
               /\ UNCHANGED <<pc, res, db, serial, eff>>
          ELSE IF s1.todo = <<>>
          THEN /\ Respond(p, [NoResponse EXCEPT !.status = 200, !.tracks_added = 0])
               /\ ses' = [ses EXCEPT ![p] = Closed(s1)]
               /\ UNCHANGED <<db, serial, eff>>
          ELSE IF Insufficient(s1.wal[u].balance, Len(s1.todo))
          THEN Curated_Insufficient(p, s1)
          ELSE /\ ses' = [ses EXCEPT ![p] = PackPurchase(s1)]
               /\ pc' = [pc EXCEPT ![p] = "c_commit"]
               /\ UNCHANGED <<res, db, serial, eff>>
    /\ UNCHANGED <<started, alone, overlap, snap>>

\* pack.download_count += 1; db.session.commit()
Curated_Commit(p) ==
    /\ pc[p] = "c_commit"
    /\ LET s == ses[p]
       IN IF UniqueViolation(s)
          THEN Failed500(p)
          ELSE /\ CommitLedger(p, s, 0, 1)
               /\ curated' = [curated EXCEPT ![s.pack].download_count = s.pack_dc + 1]
               /\ ses' = [ses EXCEPT ![p] = Expire(s)]
               /\ pc' = [pc EXCEPT ![p] = "c_respond"]
               /\ UNCHANGED <<res, beats, soundpacks>>
    /\ UNCHANGED <<started, alone, overlap, snap>>

\* 'tracks_added', 'tokens_spent', 'new_balance': wallet.balance (reloaded)
Curated_Respond(p) ==
    /\ pc[p] = "c_respond"
    /\ Respond(p, [NoResponse EXCEPT !.status = 200,
                                     !.tracks_added = Len(ses[p].todo),
                                     !.tokens_spent = Len(ses[p].todo),
                                     !.new_balance = wallets[ses[p].user].balance])
    /\ ses' = [ses EXCEPT ![p] = Closed(ses[p])]
    /\ UNCHANGED <<db, started, serial, eff, alone, overlap, snap>>

\* ------------------------------------------------------------ soft delete
ActiveTracks(bs, sp) == {b \in Beats : BeatSoundPack(b) = sp /\ bs[b].is_active}

\* A request that runs from its first query to its commit in one step:
\* every request it overlaps is overlapped, and none is alone any more.
Atomic ==
    /\ started < MaxRequests
    /\ started' = started + 1
    /\ alone' = [q \in Procs |-> FALSE]
    /\ overlap' = [q \in Procs |-> IF Active(q) THEN TRUE ELSE overlap[q]]

\* delete_track: 403 for a track of another user; else track.is_active =
\* False and pack.track_count = the count of the pack's active tracks
DeleteTrack(u, b) ==
    /\ Atomic
    /\ b \in Beats
    /\ IF BeatCreator(b) # u
       THEN UNCHANGED <<beats, soundpacks>>
       ELSE LET bs == [beats EXCEPT ![b].is_active = FALSE]
            IN /\ beats' = bs
               /\ soundpacks' =
                     IF BeatSoundPack(b) # 0
                     THEN [soundpacks EXCEPT ![BeatSoundPack(b)].track_count =
                              Cardinality(ActiveTracks(bs, BeatSoundPack(b)))]
                     ELSE soundpacks
    /\ UNCHANGED <<wallets, transactions, library, curated, pc, ses, res,
                   serial, eff, snap>>

\* admin_delete_content: item.is_active = False; for a pack, its tracks too
AdminDeleteContent(type, id) ==
    /\ Atomic
    /\ \/ /\ type = "beat" /\ id \in Beats
          /\ beats' = [beats EXCEPT ![id].is_active = FALSE]
          /\ UNCHANGED <<soundpacks, curated>>
       \/ /\ type = "pack" /\ id \in SoundPacks
          /\ soundpacks' = [soundpacks EXCEPT ![id].is_active = FALSE]
          /\ beats' = [b \in Beats |-> IF BeatSoundPack(b) = id
                                       THEN [beats[b] EXCEPT !.is_active = FALSE]
                                       ELSE beats[b]]
          /\ UNCHANGED curated
       \/ /\ type = "curated" /\ id \in CuratedPacks
          /\ curated' = [curated EXCEPT ![id].is_active = FALSE]
          /\ UNCHANGED <<beats, soundpacks>>
    /\ UNCHANGED <<wallets, transactions, library, pc, ses, res, serial, eff, snap>>

\* delete_soundpack: 403 for a pack of another user; else pack.is_active =
\* False and track.is_active = False for every track of the pack
DeleteSoundpack(u, sp) ==
    /\ Atomic
    /\ sp \in SoundPacks
    /\ IF SoundPackCreator(sp) # u
       THEN UNCHANGED <<beats, soundpacks>>
       ELSE /\ soundpacks' = [soundpacks EXCEPT ![sp].is_active = FALSE]
            /\ beats' = [b \in Beats |-> IF BeatSoundPack(b) = sp
                                         THEN [beats[b] EXCEPT !.is_active = FALSE]
                                         ELSE beats[b]]
    /\ UNCHANGED <<wallets, transactions, library, curated, pc, ses, res,
                   serial, eff, snap>>

\* delete_curated_pack: 403 for a pack of another user; else pack.is_active
\* = False
DeleteCuratedPack(u, c) ==
    /\ Atomic
    /\ c \in CuratedPacks
    /\ IF CuratedOwner(c) # u
       THEN UNCHANGED curated
       ELSE curated' = [curated EXCEPT ![c].is_active = FALSE]
    /\ UNCHANGED <<wallets, transactions, library, beats, soundpacks, pc, ses,
                   res, serial, eff, snap>>

\* register: 'Email already registered' for a user who has an account; else
\* the User, the Wallet(balance=50) and the 'bonus' Transaction, in one commit
Register(u) ==
    /\ Atomic
    /\ IF Registered(u)
       THEN UNCHANGED <<wallets, transactions, serial>>
       ELSE /\ wallets' = [wallets EXCEPT ![u] = NewWallet]
            /\ transactions' = InsertTransactions(transactions, <<BonusTx(u)>>)
            /\ serial' = [serial EXCEPT !.balance[u] = SignupBonus,
                                        !.wallet_rows[u] = @ + 1]
    /\ UNCHANGED <<library, beats, soundpacks, curated, pc, ses, res, eff, snap>>

\* SoundPack.to_dict()['token_cost']
PackTokenCost(sp) ==
    IF soundpacks[sp].track_count # 0 THEN soundpacks[sp].track_count
    ELSE Cardinality(ActiveTracks(beats, sp))

\* --------------------------------------------------------------- requests
\* The requests of the modelled window.
DownloadInputs == {<<1, 1>>, <<1, 2>>, <<1, 3>>, <<2, 1>>, <<2, MissingBeat>>,
                   <<1, DeletedBeat>>}
PlayInputs == {<<1, 1>>, <<1, DeletedBeat>>, <<2, MissingBeat>>}
TokensInputs == {<<2, "100">>, <<2, "7">>, <<4, "100">>}
CuratedInputs == {<<NoUser, 2, {}>>, <<1, 2, {}>>, <<NoUser, 1, {}>>,
                  <<1, 1, {}>>, <<2, 1, {1, 2}>>, <<2, 1, {MissingBeat}>>,
                  <<2, MissingPack, {}>>, <<2, 1, {2, 4}>>}
DeleteTrackInputs == {<<3, 1>>, <<1, 3>>, <<2, 3>>}
AdminDeleteInputs == {<<"beat", 2>>, <<"pack", 1>>, <<"curated", 1>>}
DeleteSoundpackInputs == {<<3, 1>>}
DeleteCuratedInputs == {<<2, 1>>}
RegisterInputs == {4}

Next ==
    \/ \E p \in Procs, i \in DownloadInputs : StartDownload(p, i[1], i[2])
    \/ \E p \in Procs : Download_CheckOwned(p)
    \/ \E p \in Procs : Download_AlreadyOwned(p)
    \/ \E p \in Procs : GetOrCreateWallet_Query(p)
    \/ \E p \in Procs : GetOrCreateWallet_Create(p)
    \/ \E p \in Procs : GetOrCreateWallet_Reload(p)
    \/ \E p \in Procs : Download_ReloadBeat(p)
    \/ \E p \in Procs : Download_Commit(p)
    \/ \E p \in Procs : Download_Respond(p)
    \/ \E p \in Procs, i \in PlayInputs : StartPlay(p, i[1], i[2])
    \/ \E p \in Procs : Play_Commit(p)
    \/ \E p \in Procs, i \in TokensInputs : StartTokens(p, i[1], i[2])
    \/ \E p \in Procs : Tokens_Commit(p)
    \/ \E p \in Procs : Tokens_Respond(p)
    \/ \E p \in Procs, i \in CuratedInputs : StartCurated(p, i[1], i[2], i[3])
    \/ \E p \in Procs : Curated_FreeDownload(p)
    \/ \E p \in Procs : Curated_Wallet(p)
    \/ \E p \in Procs : Curated_CheckOwned(p)
    \/ \E p \in Procs : Curated_Commit(p)
    \/ \E p \in Procs : Curated_Respond(p)
    \/ \E i \in DeleteTrackInputs : DeleteTrack(i[1], i[2])
    \/ \E i \in AdminDeleteInputs : AdminDeleteContent(i[1], i[2])
    \/ \E i \in DeleteSoundpackInputs : DeleteSoundpack(i[1], i[2])
    \/ \E i \in DeleteCuratedInputs : DeleteCuratedPack(i[1], i[2])
    \/ \E u \in RegisterInputs : Register(u)

Spec == Init /\ [][Next]_vars

\* ------------------------------------------------- commits that fail
\* max_retries of db_commit_with_retry, the helper no handler calls
MaxRetries == 3

\* what db.session.commit() can raise: a lost connection, or an error of the
\* statement itself
CommitErrors == {"connection", "integrity"}

\* 'ssl' in error_str or 'connection' in error_str or 'closed' in error_str
Transient(e) == e = "connection"

\* The handler's db.session.commit() raises e: control goes to the handler's
\* "except Exception", which rolls back and answers 500.  The commit was
\* called once.
CommitFails(p, e) ==
    /\ Respond(p, [NoResponse EXCEPT !.status = 500, !.commit_error = e,
                                     !.attempts = 1])
    /\ ses' = [ses EXCEPT ![p] = Closed(ses[p])]
    /\ UNCHANGED <<db, started, serial, eff, alone, overlap, snap>>

Download_CommitFails(p, e) == pc[p] = "d_commit" /\ CommitFails(p, e)

Tokens_CommitFails(p, e) == pc[p] = "t_commit" /\ CommitFails(p, e)

Curated_CommitFails(p, e) == pc[p] = "c_commit" /\ CommitFails(p, e)

NextFaults ==
    \/ Next
    \/ \E p \in Procs, e \in CommitErrors : Download_CommitFails(p, e)
    \/ \E p \in Procs, e \in CommitErrors : Tokens_CommitFails(p, e)
    \/ \E p \in Procs, e \in CommitErrors : Curated_CommitFails(p, e)

SpecFaults == Init /\ [][NextFaults]_vars

\* ----------------------------------------------- db_commit_with_retry
\* The helper, called in the place of db.session.commit() by a request that
\* has credited a wallet and added the Transaction (as purchase_tokens does).
\* res[p].attempts counts the passes of its loop.

\* the session has something to write: a commit of it reaches the database
Pending(s) ==
    \/ s.ptx # <<>>
    \/ s.plib # <<>>
    \/ \E u \in Users : s.wal[u].st = "new" \/ s.wal[u].dirty # {}

\* try: db.session.commit(); return True.  The commit writes what the session
\* holds at this pass.
Retry_CommitReturnsTrue(p) ==
    /\ pc[p] = "t_commit"
    /\ res[p].attempts < MaxRetries
    /\ CommitLedger(p, ses[p], 0, 0)
    /\ ses' = [ses EXCEPT ![p] = Closed(ses[p])]
    /\ Respond(p, [res[p] EXCEPT !.status = 200, !.attempts = @ + 1])
    /\ UNCHANGED <<beats, soundpacks, curated, started, alone, overlap, snap>>

\* except Exception as e: a transient error is rolled back and, before the
\* last pass, the session is removed and the loop goes on; any other error,
\* and a transient one in the last pass, is raised.  db.session.rollback()
\* and db.session.remove() leave a session without the request's changes.
Retry_CommitRaises(p, e) ==
    /\ pc[p] = "t_commit"
    /\ res[p].attempts < MaxRetries
    /\ Pending(ses[p])
    /\ ses' = [ses EXCEPT ![p] = Closed(ses[p])]
    /\ IF Transient(e) /\ res[p].attempts + 1 < MaxRetries
       THEN /\ res' = [res EXCEPT ![p] = [@ EXCEPT !.commit_error = e,
                                                   !.attempts = @ + 1]]
            /\ UNCHANGED pc
       ELSE Respond(p, [res[p] EXCEPT !.status = 500, !.commit_error = e,
                                      !.attempts = @ + 1])
    /\ UNCHANGED <<db, started, serial, eff, alone, overlap, snap>>

\* the requests that use the helper: users with a wallet buy a package
RetryInputs == {<<1, "100">>, <<1, "250">>, <<1, "7">>}

NextRetry ==
    \/ \E p \in Procs, i \in RetryInputs : StartTokens(p, i[1], i[2])
    \/ \E p \in Procs : GetOrCreateWallet_Query(p)
    \/ \E p \in Procs : Retry_CommitReturnsTrue(p)
    \/ \E p \in Procs, e \in CommitErrors : Retry_CommitRaises(p, e)

SpecRetry == Init /\ [][NextRetry]_vars

\* ------------------------------------------------- one buyer, in sequence
\* The buyer of the walk-through, with 3 tokens left of the bonus.
ExampleBuyer == 2
ExamplePrior == SignupBonus - 3 * TokenCost

\* The requests of the walk-through: beat 1, beat 1 again, the priced curated
\* pack 1 (tracks 1, 2, 3), beat 4.
Example == << <<"download", 1>>, <<"download", 1>>, <<"curated", 1>>,
             <<"download", 4>> >>

\* The buyer has 3 tokens and owns none of the beats 1..4; the creator has a
\* wallet or none; the window has room for the requests of the walk-through.
InitExample ==
    \E c \in {-1, 0} :
        InitWith([u \in Users |-> IF u = ExampleBuyer THEN ExamplePrior
                                  ELSE IF u = BeatCreator(1) THEN c ELSE -1],
                 MaxRequests - Len(Example))

\* no request is running: the buyer sends the next one after the answer
Quiet == \A q \in Procs : ~Active(q)

Example_Download(p, b) == Quiet /\ StartDownload(p, ExampleBuyer, b)

Example_Pack(p, c) == Quiet /\ StartCurated(p, ExampleBuyer, c, {})

NextExample ==
    \/ \E p \in Procs, k \in 1..Len(Example) :
          Example[k][1] = "download" /\ Example_Download(p, Example[k][2])
    \/ \E p \in Procs, k \in 1..Len(Example) :
          Example[k][1] = "curated" /\ Example_Pack(p, Example[k][2])
    \/ \E p \in Procs : Download_CheckOwned(p)
    \/ \E p \in Procs : Download_AlreadyOwned(p)
    \/ \E p \in Procs : GetOrCreateWallet_Query(p)
    \/ \E p \in Procs : GetOrCreateWallet_Create(p)
    \/ \E p \in Procs : GetOrCreateWallet_Reload(p)
    \/ \E p \in Procs : Download_ReloadBeat(p)
    \/ \E p \in Procs : Download_Commit(p)
    \/ \E p \in Procs : Download_Respond(p)
    \/ \E p \in Procs : Curated_Wallet(p)
    \/ \E p \in Procs : Curated_CheckOwned(p)
    \/ \E p \in Procs : Curated_Commit(p)
    \/ \E p \in Procs : Curated_Respond(p)

SpecExample == InitExample /\ [][NextExample]_vars

\* ------------------------------------------------------------- properties
\* the worker's request was a beat download that has returned
DownloadDone(p) == pc[p] = "done" /\ ses[p].op = "download"

\* ... that found no library entry of the buyer for the beat
SawUnowned(p) == DownloadDone(p) /\ ses[p].phase # "none"

\* ... and charged the buyer: the 200 response with tokens_spent
Purchased(p) == SawUnowned(p) /\ res[p].status = 200 /\ ~res[p].already_owned

\* the wallet of u as the worker's request found it; a user without a wallet
\* row gets one with the bonus on the way
WalletBefore(p, u) ==
    IF snap[p].wallets[u].exists THEN snap[p].wallets[u] ELSE NewWallet

\* the Transaction rows committed since the worker's request began
NewTx(p) == SubSeq(transactions, snap[p].ntx + 1, Len(transactions))

TxOfType(txs, type) == {i \in 1..Len(txs) : txs[i].transaction_type = type}

LibRowsOf(u, b) ==
    {i \in 1..Len(library) : library[i].user_id = u /\ library[i].beat_id = b}

\* C1: no wallet's balance is ever negative.
C1_BalanceNonNegative == \A u \in Users : wallets[u].balance >= 0

\* a buyer spent the last token: the balance is 0 after 50 purchases
C1_Witness ==
    \E p \in Procs : /\ Purchased(p)
                     /\ wallets[ses[p].user].balance = 0
                     /\ wallets[ses[p].user].total_spent = SignupBonus

\* C2: when two requests of one buyer for one beat the buyer never owned
\* overlap, the buyer is debited once, one library entry exists, and the
\* request that lost the race answers "already owned".
C2_SameBeatOnce ==
    \A p, q \in Procs :
        (/\ p < q /\ SawUnowned(p) /\ SawUnowned(q)
         /\ overlap[p] /\ overlap[q]
         /\ ses[p].user = ses[q].user /\ ses[p].beat = ses[q].beat
         /\ res[p].status # 400 /\ res[q].status # 400)
        => /\ eff[p].debit + eff[q].debit = TokenCost
           /\ Cardinality(LibRowsOf(ses[p].user, ses[p].beat)) = 1
           /\ \E w, l \in {p, q} :
                 /\ w # l
                 /\ res[w].status = 200 /\ ~res[w].already_owned
                 /\ res[l].status = 200 /\ res[l].already_owned

\* C3: a beat download that fails after the buyer was debited has committed
\* nothing: no debit, no credit, no Transaction, no library entry, no creator
\* wallet, no download counted.
C3_FailedPurchaseLeavesNothing ==
    \A p \in Procs :
        (DownloadDone(p) /\ res[p].status = 500 /\ ses[p].debited)
        => /\ eff[p].debit = 0 /\ eff[p].credit = 0
           /\ eff[p].nlib = 0 /\ eff[p].beat_dc = 0
           /\ eff[p].created \subseteq {ses[p].user}
           /\ eff[p].ntx = Cardinality(eff[p].created)

\* C4: two overlapping purchases of one buyer for different beats leave the
\* buyer's wallet as the two purchases made one after the other would: no
\* debit is lost, and the balance that covers one purchase pays for one only.
C4_SerialDebits ==
    \A p, q \in Procs :
        (/\ p < q /\ SawUnowned(p) /\ SawUnowned(q)
         /\ overlap[p] /\ overlap[q]
         /\ ses[p].user = ses[q].user /\ ses[p].beat # ses[q].beat)
        => /\ wallets[ses[p].user].balance = serial.balance[ses[p].user]
           /\ wallets[ses[p].user].total_spent = serial.total_spent[ses[p].user]
           /\ serial.balance[ses[p].user] >= 0

\* C5: two overlapping purchases of one beat by different buyers leave the
\* creator's wallet and the beat's download counter with both credits and
\* both increments.
C5_SerialCredits ==
    \A p, q \in Procs :
        (/\ p < q /\ Purchased(p) /\ Purchased(q)
         /\ overlap[p] /\ overlap[q]
         /\ ses[p].user # ses[q].user /\ ses[p].beat = ses[q].beat)
        => LET c == BeatCreator(ses[p].beat)
           IN /\ wallets[c].balance = serial.balance[c]
              /\ wallets[c].total_earned = serial.total_earned[c]
              /\ beats[ses[p].beat].download_count = serial.beat_dc[ses[p].beat]

\* C6: a download of an active beat the buyer owns answers "already owned"
\* and changes no wallet and no Transaction and adds no library entry: only
\* the entry's download_count goes up by one and its downloaded_at is set.
C6_AlreadyOwnedNoLedger ==
    [][\A p \in Procs :
          /\ (pc[p] = "d_existing" /\ pc'[p] # "d_existing"
              /\ Owned(library, ses[p].user, ses[p].beat))
             => pc'[p] = "d_owned"
          /\ (pc[p] = "d_owned" /\ pc'[p] # "d_owned")
             => LET id == ses[p].lib_id
                IN /\ res'[p].status = 200 /\ res'[p].already_owned
                   /\ wallets' = wallets /\ transactions' = transactions
                   /\ beats' = beats /\ eff'[p] = NoEffect
                   /\ library[id].user_id = ses[p].user
                   /\ library[id].beat_id = ses[p].beat
                   /\ library' = [library EXCEPT
                                     ![id].download_count = ses[p].lib_dc + 1,
                                     ![id].downloaded_at = ses[p].now]
                   /\ alone[p] => library'[id].download_count
                                     = library[id].download_count + 1]_vars

\* a buyer downloaded an owned beat again
C6_Witness ==
    \E p \in Procs : /\ DownloadDone(p) /\ res[p].status = 200
                     /\ res[p].already_owned
                     /\ \E i \in LibRowsOf(ses[p].user, ses[p].beat) :
                           library[i].download_count = 2

\* C7: every successful purchase of a beat commits one 'earn' Transaction of
\* max(1, 80% of the cost) = 1 token for the creator; the creator's
\* total_earned is one higher, and the creator's balance is one higher than
\* it was before the credit (for a creator who is the buyer: than the debited
\* balance).
C7_CreatorShare ==
    \A p \in Procs :
        Purchased(p)
        => LET c == BeatCreator(ses[p].beat)
               u == ses[p].user
               earns == TxOfType(NewTx(p), "earn")
               debited == IF c = u THEN TokenCost ELSE 0
           IN /\ CreatorEarnings(TokenCost) = 1
              /\ eff[p].credit = 1
              /\ alone[p] =>
                    /\ Cardinality(earns) = 1
                    /\ \A i \in earns :
                          /\ NewTx(p)[i].user_id = c
                          /\ NewTx(p)[i].amount = 1
                          /\ NewTx(p)[i].balance_after = wallets[c].balance
                    /\ wallets[c].total_earned = WalletBefore(p, c).total_earned + 1
                    /\ wallets[c].balance = WalletBefore(p, c).balance - debited + 1

\* a purchase credited a creator other than the buyer
C7_Witness ==
    \E p \in Procs : /\ Purchased(p) /\ alone[p]
                     /\ BeatCreator(ses[p].beat) # ses[p].user
                     /\ wallets[BeatCreator(ses[p].beat)].total_earned = 1

\* C8, as the specification states it: after a successful purchase the
\* buyer's balance and the returned new_balance are the balance before minus
\* the cost, whoever the creator is.
C8_DebitedBalanceReturned ==
    \A p \in Procs :
        (Purchased(p) /\ alone[p])
        => LET u == ses[p].user
           IN /\ wallets[u].total_spent = WalletBefore(p, u).total_spent + TokenCost
              /\ wallets[u].balance = WalletBefore(p, u).balance - TokenCost
              /\ res[p].new_balance = WalletBefore(p, u).balance - TokenCost

\* C8, amended: a successful purchase debits the buyer the cost of 1 token
\* (one 'spend' Transaction of -1 whose balance_after is the balance before
\* minus 1, total_spent one higher); the balance after the call and the
\* returned new_balance are the balance before minus 1 for a buyer who is not
\* the creator, and that plus the creator share of 1 for a buyer who is.
C8_DebitAndNewBalance ==
    \A p \in Procs :
        (Purchased(p) /\ alone[p])
        => LET u == ses[p].user
               before == WalletBefore(p, u)
               spends == TxOfType(NewTx(p), "spend")
               share == IF BeatCreator(ses[p].beat) = u
                        THEN CreatorEarnings(TokenCost) ELSE 0
           IN /\ Cardinality(spends) = 1
              /\ \A i \in spends :
                    /\ NewTx(p)[i].user_id = u
                    /\ NewTx(p)[i].amount = -TokenCost
                    /\ NewTx(p)[i].balance_after = before.balance - TokenCost
              /\ wallets[u].total_spent = before.total_spent + TokenCost
              /\ wallets[u].balance = before.balance - TokenCost + share
              /\ res[p].tokens_spent = TokenCost
              /\ res[p].new_balance = wallets[u].balance

\* a creator bought their own beat: the balance is what it was
C8_Witness ==
    \E p \in Procs : /\ Purchased(p) /\ alone[p]
                     /\ BeatCreator(ses[p].beat) = ses[p].user
                     /\ res[p].new_balance = WalletBefore(p, ses[p].user).balance

\* C9: the token_cost of a sound pack is the number of its active tracks,
\* also after delete_track or admin_delete_content removed one of them.
C9_PackCostIsActiveTracks ==
    \A sp \in SoundPacks : PackTokenCost(sp) = Cardinality(ActiveTracks(beats, sp))

\* C10: a download of a free curated pack, with or without a login, changes
\* no wallet, no Transaction and no library entry: it adds one to the pack's
\* download counter and answers is_free, every time it is repeated.
C10_FreePackDownload ==
    [][\A p \in Procs :
          /\ (pc'[p] = "c_free" /\ pc[p] # "c_free") => curated[ses'[p].pack].is_free
          /\ (pc'[p] = "c_wallet" /\ pc[p] # "c_wallet")
             => ~curated[ses'[p].pack].is_free
          /\ (pc[p] = "c_free" /\ pc'[p] # "c_free")
             => LET c == ses[p].pack
                IN /\ res'[p].status = 200 /\ res'[p].is_free
                   /\ wallets' = wallets /\ transactions' = transactions
                   /\ library' = library /\ beats' = beats
                   /\ soundpacks' = soundpacks
                   /\ curated' = [curated EXCEPT
                                     ![c].download_count = ses[p].pack_dc + 1]
                   /\ eff'[p] = [NoEffect EXCEPT !.pack_dc = 1]
                   /\ alone[p] => curated'[c].download_count
                                     = curated[c].download_count + 1]_vars

\* the free pack was downloaded twice, the second time by a logged-in user
C10_Witness ==
    \E p \in Procs : /\ pc[p] = "done" /\ ses[p].op = "curated"
                     /\ res[p].is_free /\ ses[p].user # NoUser
                     /\ curated[ses[p].pack].download_count = 2
                     /\ Len(library) = snap[p].nlib

\* the worker's request was a download of a priced curated pack that succeeded
BatchDone(p) ==
    /\ pc[p] = "done" /\ ses[p].op = "curated"
    /\ res[p].status = 200 /\ ~res[p].is_free

\* the buyer had a library entry for the beat when the worker's request began
OwnedBefore(p, u, b) ==
    \E i \in 1..snap[p].nlib : library[i].user_id = u /\ library[i].beat_id = b

\* the requested tracks of the pack the buyer did not own when the request began
UnownedBefore(p) ==
    {i \in 1..Len(ses[p].tracks) : ~OwnedBefore(p, ses[p].user, ses[p].tracks[i])}

\* the library entries added since the worker's request began
NewLibRows(p) == (snap[p].nlib + 1)..Len(library)

\* what C11 states of the ledger and the library: N - K tokens debited, one
\* new entry for each track that was not owned and none for the others
BatchSettled(p) ==
    LET u == ses[p].user
        cost == Cardinality(UnownedBefore(p))
    IN /\ wallets[u].balance = WalletBefore(p, u).balance - cost
       /\ wallets[u].total_spent = WalletBefore(p, u).total_spent + cost
       /\ Cardinality(NewLibRows(p)) = cost
       /\ \A i \in UnownedBefore(p) :
             \E j \in NewLibRows(p) : /\ library[j].user_id = u
                                      /\ library[j].beat_id = ses[p].tracks[i]
       /\ res[p].tracks_added = cost

C12_RunningBalanceAfter ==
    \A p \in Procs :
        (BatchDone(p) /\ alone[p] /\ res[p].tracks_added > 0)
        => LET u == ses[p].user
               B == WalletBefore(p, u).balance
               M == res[p].tracks_added
           IN /\ Len(NewTx(p)) = M
              /\ \A i \in 1..Len(NewTx(p)) :
                    /\ NewTx(p)[i].transaction_type = "spend"
                    /\ NewTx(p)[i].reference_id = ses[p].todo[i]
                    /\ NewTx(p)[i].balance_after = B - i
              /\ NewTx(p)[M].balance_after = wallets[u].balance

\* the Transaction rows a step commits
Appended == SubSeq(transactions', Len(transactions) + 1, Len(transactions'))

\* the balance of a wallet row, 0 for a user without one
BalanceOf(w) == IF w.exists THEN w.balance ELSE 0

\* C13: every committed change of a wallet's balance comes with Transactions
\* of that user for the signed change, the last of them with balance_after =
\* the committed balance, and no Transaction is committed without the change.
C13_BalanceChangeHasRecord ==
    [][\A u \in Users :
          LET mine == {i \in 1..Len(Appended) : Appended[i].user_id = u}
              amounts == SumSeq([i \in 1..Len(Appended) |->
                                    IF i \in mine THEN Appended[i].amount ELSE 0])
              last == CHOOSE i \in mine : \A j \in mine : j <= i
          IN (wallets'[u] # wallets[u] \/ mine # {})
             => /\ mine # {}
                /\ amounts = BalanceOf(wallets'[u]) - BalanceOf(wallets[u])
                /\ Appended[last].balance_after = wallets'[u].balance]_vars

\* the 'bonus' Transactions of a user
BonusOf(u) ==
    {i \in 1..Len(transactions) :
        transactions[i].user_id = u /\ transactions[i].transaction_type = "bonus"}

\* C14: whatever registrations, wallet lookups and purchases interleave, a
\* user has at most one wallet row and at most one 'bonus' Transaction, and a
\* request that finds the user's wallet creates none, adds no 'bonus' and does
\* not reset the balance.
C14_OneWalletOneBonus ==
    /\ \A u \in Users :
          /\ serial.wallet_rows[u] <= 1
          /\ wallets[u].exists <=> serial.wallet_rows[u] = 1
          /\ Cardinality(BonusOf(u)) <= serial.wallet_rows[u]
    /\ \A p \in Procs :
          /\ \A u \in eff[p].created : ~snap[p].wallets[u].exists
          /\ (pc[p] = "done" /\ alone[p])
             => \A u \in Users :
                   snap[p].wallets[u].exists
                   => /\ \A i \in TxOfType(NewTx(p), "bonus") : NewTx(p)[i].user_id # u
                      /\ (ses[p].op = "tokens" /\ res[p].status = 200 /\ ses[p].user = u)
                         => wallets[u].balance = snap[p].wallets[u].balance
                                                   + PackageTokens(ses[p].package)

\* a registered user bought tokens: one wallet, one bonus, the balance kept
C14_Witness ==
    \E p \in Procs : /\ pc[p] = "done" /\ alone[p]
                     /\ ses[p].op = "tokens" /\ res[p].status = 200
                     /\ ses[p].user \notin OldUsers
                     /\ snap[p].wallets[ses[p].user].exists
                     /\ Cardinality(BonusOf(ses[p].user)) = 1
                     /\ wallets[ses[p].user].balance = SignupBonus + 100

\* the committed wallets, Transactions and library are those of the time the
\* worker's request began
LedgerAsBefore(p) ==
    /\ wallets = snap[p].wallets
    /\ Len(transactions) = snap[p].ntx
    /\ Len(library) = snap[p].nlib

\* C15: a download of an active beat the buyer does not own, by a buyer whose
\* balance is below the cost, answers 400 with required = the cost and
\* available = the buyer's balance, and commits nothing.
C15_InsufficientFundsNoEffect ==
    \A p \in Procs :
        /\ (DownloadDone(p) /\ res[p].status = 400)
           => /\ SawUnowned(p)
              /\ res[p].required = TokenCost
              /\ res[p].available < TokenCost
              /\ eff[p] = NoEffect
              /\ alone[p] => /\ res[p].available = wallets[ses[p].user].balance
                             /\ LedgerAsBefore(p)
        /\ (SawUnowned(p) /\ alone[p]
            /\ WalletBefore(p, ses[p].user).balance < TokenCost)
           => res[p].status = 400

\* a buyer with no token left was refused
C15_Witness ==
    \E p \in Procs : /\ DownloadDone(p) /\ alone[p]
                     /\ res[p].status = 400 /\ res[p].available = 0
                     /\ wallets[ses[p].user].balance = 0

\* C16: a download or a play of a beat id that has no row, or whose beat is
\* inactive, answers 404 and changes nothing, also for a caller who owns the
\* beat; a beat that is there and active is never answered with 404.
C16_NotFoundNoEffect ==
    \A p \in Procs :
        (pc[p] = "done" /\ ses[p].op \in {"download", "play"} /\ alone[p])
        => LET b == ses[p].beat
               found == b \in Beats /\ beats[b].is_active
           IN /\ res[p].status = 404 <=> ~found
              /\ res[p].status = 404
                 => /\ eff[p] = NoEffect
                    /\ LedgerAsBefore(p)
                    /\ beats = snap[p].beats
                    /\ \A i \in LibRowsOf(ses[p].user, b) : i <= snap[p].nlib

\* the owner of a deleted beat asked for it again and got 404
C16_Witness ==
    \E p \in Procs : /\ DownloadDone(p) /\ alone[p]
                     /\ res[p].status = 404
                     /\ ses[p].beat \in Beats
                     /\ LibRowsOf(ses[p].user, ses[p].beat) # {}

\* C17: a batch purchase that fails -- share code unknown or of an inactive
\* pack (404), no requested track in the pack (400), no login on a priced pack
\* (401), balance below the total cost (400), or a commit the database refused
\* (500, rolled back) -- has committed nothing; when it ran alone, wallets,
\* Transactions, the library and the packs' download counters are as when it
\* began.  Run alone, each of the first four cases fails.
C17_FailedBatchNoEffect ==
    \A p \in Procs :
        (pc[p] = "done" /\ ses[p].op = "curated")
        => LET s == ses[p]
               c == s.pack
               found == c \in CuratedPacks /\ curated[c].is_active
               failed == res[p].status \in {400, 401, 404, 500}
           IN /\ failed => eff[p] = NoEffect
              /\ (failed /\ alone[p])
                 => LedgerAsBefore(p) /\ curated = snap[p].curated
              /\ alone[p]
                 => /\ ~found => res[p].status = 404
                    /\ (found /\ TrackIds(c, s.req) = <<>>) => res[p].status = 400
                    /\ (found /\ TrackIds(c, s.req) # <<>> /\ ~curated[c].is_free
                          /\ s.user = NoUser) => res[p].status = 401
                    /\ (res[p].status = 400 /\ s.todo # <<>>)
                       => /\ res[p].required = Len(s.todo)
                          /\ res[p].available < res[p].required
                          /\ res[p].available = wallets[s.user].balance

\* a buyer with fewer tokens than unowned tracks asked for was turned away
C17_Witness ==
    \E p \in Procs : /\ pc[p] = "done" /\ ses[p].op = "curated" /\ alone[p]
                     /\ res[p].status = 400
                     /\ ses[p].todo # <<>>
                     /\ res[p].available < Len(ses[p].todo)

\* no two library entries have the same (user_id, beat_id)
LibraryUnique ==
    Cardinality({<<library[i].user_id, library[i].beat_id>> : i \in 1..Len(library)})
        = Len(library)

\* every library entry stays, with its user, its beat and its tokens_spent
LibraryKept ==
    /\ Len(library') >= Len(library)
    /\ \A i \in 1..Len(library) :
          /\ library'[i].user_id = library[i].user_id
          /\ library'[i].beat_id = library[i].beat_id
          /\ library'[i].tokens_spent = library[i].tokens_spent

\* C18: in every reachable state, whatever the interleaving of single and
\* batch purchases, the library has at most one entry per (user, beat); no
\* step removes an entry or changes its user, beat or tokens_spent.
C18_OneEntryPerUserBeat == [](LibraryUnique) /\ [][LibraryKept]_vars

\* a single and a batch purchase of one buyer for one beat overlapped: the
\* store refused the second entry, one entry exists
C18_Witness ==
    \E p, q \in Procs :
        /\ pc[p] = "done" /\ ses[p].op = "download"
        /\ pc[q] = "done" /\ ses[q].op = "curated"
        /\ ses[p].user = ses[q].user
        /\ \E i \in 1..Len(ses[q].todo) : ses[q].todo[i] = ses[p].beat
        /\ 500 \in {res[p].status, res[q].status}
        /\ 200 \in {res[p].status, res[q].status}
        /\ Cardinality(LibRowsOf(ses[p].user, ses[p].beat)) = 1

\* every Transaction stays where it is and as it is
TransactionsKept ==
    /\ Len(transactions') >= Len(transactions)
    /\ \A i \in 1..Len(transactions) : transactions'[i] = transactions[i]

\* C19: the transaction log is append-only: every step of every request
\* leaves each Transaction that was there before it in place and unchanged.
C19_LogAppendOnly == [][TransactionsKept]_vars

\* a purchase added its records behind those of earlier requests
C19_Witness ==
    \E p \in Procs :
        /\ pc[p] = "done" /\ eff[p].ntx > 0
        /\ snap[p].ntx > 0
        /\ Len(transactions) >= snap[p].ntx + eff[p].ntx
        /\ transactions[Len(transactions)].transaction_type \in {"spend", "earn"}

\* C20: a request whose settlement commit failed with a transient
\* connectivity error answers with the fatal error only after the commit was
\* tried again, at most MaxRetries times in all; after any other commit error
\* it answers at once.
C20_TransientCommitRetried ==
    \A p \in Procs :
        (pc[p] = "done" /\ res[p].commit_error # "none")
        => IF Transient(res[p].commit_error)
           THEN res[p].attempts > 1 /\ res[p].attempts <= MaxRetries
           ELSE res[p].attempts = 1

\* what is inactive before a step is inactive after it
StaysInactive ==
    /\ \A b \in Beats : ~beats[b].is_active => ~beats'[b].is_active
    /\ \A sp \in SoundPacks : ~soundpacks[sp].is_active => ~soundpacks'[sp].is_active
    /\ \A c \in CuratedPacks : ~curated[c].is_active => ~curated'[c].is_active

\* C21: a beat, sound pack or curated pack that has become inactive stays
\* inactive through every step of every request.
C21_InactiveForGood == [][StaysInactive]_vars

\* a download that had loaded the beat while it was active committed after
\* the beat was deleted, and the beat is still inactive
C21_Witness ==
    \E p \in Procs :
        /\ Purchased(p)
        /\ snap[p].beats[ses[p].beat].is_active
        /\ ~beats[ses[p].beat].is_active
        /\ beats[ses[p].beat].download_count > snap[p].beats[ses[p].beat].download_count

\* C22: a successful batch purchase on a priced pack, run alone, leaves the
\* pack's download_count one higher than it found it, whether it charged for
\* all, some or none of the requested tracks.
C22_PackCountedOnce ==
    \A p \in Procs :
        (BatchDone(p) /\ alone[p])
        => curated[ses[p].pack].download_count
              = snap[p].curated[ses[p].pack].download_count + 1

\* the buyer's balance when the worker's request began
BalanceBefore(p) == snap[p].wallets[ExampleBuyer].balance

\* C23: the walk-through, step by step, for a buyer who sends one request
\* after the other.  (1) With 3 tokens and beats 1, 2, 3 unowned, the download
\* of beat 1 leaves 2 tokens, credits the creator 1 and adds the library
\* entry.  (2) A second download of beat 1 answers already_owned and leaves 2
\* tokens.  (3) The priced pack of beats 1, 2, 3 then charges 2 and leaves 0.
\* (4) With 0 tokens the download of an unowned beat answers 400 with
\* required 1 and available 0.
C23_ExampleTrace ==
    \A p \in Procs :
        pc[p] = "done"
        => LET u == ExampleBuyer
               w == wallets[u]
               c == BeatCreator(1)
               own(b) == OwnedBefore(p, u, b)
           IN /\ (/\ ses[p].op = "download" /\ ses[p].beat = 1
                  /\ BalanceBefore(p) = 3 /\ ~own(1) /\ ~own(2) /\ ~own(3))
                 => /\ res[p].status = 200 /\ ~res[p].already_owned
                    /\ res[p].tokens_spent = 1 /\ res[p].new_balance = 2
                    /\ w.balance = 2
                    /\ wallets[c].balance = WalletBefore(p, c).balance + 1
                    /\ wallets[c].total_earned = WalletBefore(p, c).total_earned + 1
                    /\ Cardinality(LibRowsOf(u, 1)) = 1
                    /\ Len(library) = snap[p].nlib + 1
              /\ (/\ ses[p].op = "download" /\ ses[p].beat = 1
                  /\ BalanceBefore(p) = 2 /\ own(1))
                 => /\ res[p].status = 200 /\ res[p].already_owned
                    /\ LedgerAsBefore(p)
                    /\ w.balance = 2
              /\ (/\ ses[p].op = "curated" /\ ses[p].pack = 1
                  /\ BalanceBefore(p) = 2 /\ own(1) /\ ~own(2) /\ ~own(3))
                 => /\ res[p].status = 200
                    /\ res[p].tokens_spent = 2 /\ res[p].tracks_added = 2
                    /\ res[p].new_balance = 0
                    /\ w.balance = 0
                    /\ Cardinality(LibRowsOf(u, 2)) = 1
                    /\ Cardinality(LibRowsOf(u, 3)) = 1
                    /\ Len(library) = snap[p].nlib + 2
              /\ (/\ ses[p].op = "download" /\ ses[p].beat = 4
                  /\ BalanceBefore(p) = 0 /\ ~own(4))
                 => /\ res[p].status = 400
                    /\ res[p].required = 1 /\ res[p].available = 0
                    /\ LedgerAsBefore(p)
                    /\ w.balance = 0

\* the end of the walk-through: beat 1 was bought alone and downloaded a
\* second time, beats 2 and 3 came with the pack, and the download of beat 4
\* was refused for a balance of 0
C23_Witness ==
    \E p \in Procs :
        /\ pc[p] = "done" /\ ses[p].op = "download" /\ ses[p].beat = 4
        /\ res[p].status = 400 /\ res[p].available = 0
        /\ started = MaxRequests
        /\ wallets[ExampleBuyer].balance = 0
        /\ \E i \in LibRowsOf(ExampleBuyer, 1) : library[i].download_count = 2
        /\ \E i \in 1..Len(transactions) :
              /\ transactions[i].user_id = ExampleBuyer
              /\ transactions[i].reference_type = "beat_download"
              /\ transactions[i].reference_id = 1
        /\ \A b \in {2, 3} :
              \E i \in 1..Len(transactions) :
                 /\ transactions[i].user_id = ExampleBuyer
                 /\ transactions[i].reference_type = "curated_pack_download"
                 /\ transactions[i].reference_id = b

\* C24: a purchase, single or batch, that ran alone has added library entries
\* (each paid with a token) only for beats that were active when it began.
C24_OnlyActiveBeatsSold ==
    \A p \in Procs :
        (pc[p] = "done" /\ alone[p] /\ ses[p].op \in {"download", "curated"}
         /\ res[p].status = 200)
        => \A j \in NewLibRows(p) :
              /\ library[j].beat_id \in Beats
              /\ snap[p].beats[library[j].beat_id].is_active

\* the sum of the signed amounts of the user's Transactions of every type
LoggedBalance(u) ==
    SumSeq([i \in 1..Len(transactions) |->
               IF transactions[i].user_id = u THEN transactions[i].amount ELSE 0])

\* C25: in every committed state the balance of every wallet is the sum of
\* the amounts of its user's Transactions.
C25_BalanceIsLoggedSum ==
    \A u \in Users : wallets[u].exists => wallets[u].balance = LoggedBalance(u)

\* the library entries of a user
LibraryOf(u) == {i \in 1..Len(library) : library[i].user_id = u}

\* the sum of tokens_spent over the user's library entries
PaidForLibrary(u) ==
    SumSeq([i \in 1..Len(library) |->
               IF library[i].user_id = u THEN library[i].tokens_spent ELSE 0])

\* the 'spend' Transactions of a user
SpendsOf(u) ==
    {i \in 1..Len(transactions) :
        transactions[i].user_id = u /\ transactions[i].transaction_type = "spend"}

\* C26: in every committed state that no running request has still to
\* complete, whatever purchases interleaved before, a user's total_spent is
\* the sum of tokens_spent of the user's library entries, and the user has as
\* many 'spend' Transactions as library entries.
C26_SpentMatchesLibrary ==
    Quiet => \A u \in Users :
                /\ wallets[u].total_spent = PaidForLibrary(u)
                /\ Cardinality(SpendsOf(u)) = Cardinality(LibraryOf(u))

\* C27: a successful batch purchase on a priced pack commits no credit and no
\* increment of a beat's download_count; when it ran alone, every wallet but
\* the buyer's and every beat is as when it began, and no 'earn' Transaction
\* was added.
C27_BatchTouchesBuyerOnly ==
    \A p \in Procs :
        BatchDone(p)
        => /\ eff[p].credit = 0 /\ eff[p].beat_dc = 0
           /\ alone[p]
              => /\ \A u \in Users \ {ses[p].user} : wallets[u] = snap[p].wallets[u]
                 /\ beats = snap[p].beats
                 /\ \A i \in (snap[p].ntx + 1)..Len(transactions) :
                       /\ transactions[i].transaction_type = "spend"
                       /\ transactions[i].user_id = ses[p].user

\* a batch purchase charged for a track whose creator has a wallet
C27_Witness ==
    \E p \in Procs :
        /\ BatchDone(p) /\ alone[p]
        /\ res[p].tracks_added > 0
        /\ \E i \in 1..Len(ses[p].todo) :
              /\ BeatCreator(ses[p].todo[i]) # ses[p].user
              /\ wallets[BeatCreator(ses[p].todo[i])].exists

\* the tokens in all wallets of a wallets table
TotalBalance(ws) == SumSeq([u \in 1..Cardinality(Users) |-> BalanceOf(ws[u])])

\* C28: a successful download that ran alone changes the tokens in all
\* wallets together by the creator's share minus the cost, a successful batch
\* purchase by minus its total cost, also when the buyer or the creator had
\* no wallet before.
C28_PurchasesMintNothing ==
    \A p \in Procs :
        /\ (Purchased(p) /\ alone[p])
           => TotalBalance(wallets)
                 = TotalBalance(snap[p].wallets) + CreatorEarnings(TokenCost) - TokenCost
        /\ (BatchDone(p) /\ alone[p])
           => TotalBalance(wallets)
                 = TotalBalance(snap[p].wallets) - Cardinality(UnownedBefore(p))

\* the beats of a curated pack
PackBeats(c) == SeqToSet(CuratedTracks(c))

\* C29: a batch purchase charges for and grants only beats of the addressed
\* pack, and with requested ids only those among them: the tracks it settles
\* are such beats in every interleaving; when it ran alone, the library
\* entries added are the buyer's, for such beats, one token each, and the
\* buyer is debited one token for each of them.
C29_OnlyPackMembers ==
    \A p \in Procs :
        (pc[p] = "done" /\ ses[p].op = "curated" /\ res[p].status = 200
         /\ ~res[p].is_free)
        => LET s == ses[p]
               allowed == IF s.req # {} THEN PackBeats(s.pack) \cap s.req
                          ELSE PackBeats(s.pack)
           IN /\ SeqToSet(s.todo) \subseteq allowed
              /\ eff[p].nlib = Len(s.todo) /\ eff[p].debit = Len(s.todo)
              /\ alone[p]
                 => /\ \A j \in NewLibRows(p) :
                          /\ library[j].user_id = s.user
                          /\ library[j].beat_id \in allowed
                          /\ library[j].tokens_spent = 1
                    /\ wallets[s.user].balance
                          = WalletBefore(p, s.user).balance - Cardinality(NewLibRows(p))

\* the request named a beat of the pack and a beat outside it, and was
\* charged for the first only
C29_Witness ==
    \E p \in Procs :
        /\ BatchDone(p) /\ alone[p]
        /\ ses[p].req \ PackBeats(ses[p].pack) # {}
        /\ (ses[p].req \ PackBeats(ses[p].pack)) \cap Beats # {}
        /\ res[p].tracks_added = 1 /\ res[p].tokens_spent = 1
        /\ Cardinality(NewLibRows(p)) = 1

\* the worker's request called the helper and the helper has returned or raised
RetryDone(p) ==
    pc[p] = "done" /\ ses[p].op = "tokens" /\ ValidPackage(ses[p].package)

\* C30: the helper returns True only when the changes of the request (the
\* credit and its 'purchase' Transaction) are committed; when they are not,
\* it has raised, after at most MaxRetries passes.
C30_TrueOnlyIfCommitted ==
    \A p \in Procs :
        RetryDone(p)
        => /\ res[p].attempts <= MaxRetries
           /\ res[p].status \in {200, 500}
           /\ res[p].status = 200 <=> eff[p].ntx = 1
           /\ (res[p].status = 200 /\ alone[p])
              => /\ wallets[ses[p].user].balance
                       = snap[p].wallets[ses[p].user].balance
                            + PackageTokens(ses[p].package)
                 /\ Len(transactions) = snap[p].ntx + 1

====
